---- MODULE Spec2Model ----
(***************************************************************************)
(* Seat inventory and booking consistency core of the ticketing backend:   *)
(* one trip with its seats, the bookings made on it, the promo codes and   *)
(* the request handlers that touch them (bookings.py, admin_bookings.py,   *)
(* admin_trips.py, models/booking.py, models/trip.py).                     *)
(*                                                                         *)
(* Money is counted in cents, price multipliers in hundredths, time in     *)
(* abstract ticks.  booking_id 0 stands for NULL.                          *)
(***************************************************************************)
EXTENDS Integers, FiniteSets, Sequences, TLC

(* ------------------------------ bounds --------------------------------- *)

\* Bookings created in a run of requests served one at a time (ids are never
\* reused, so this caps the id sequence).
MaxBookings == 1
\* Bookings created in a run of overlapping requests.
MaxRaceBookings == 2
\* Bookings created on the trip in a run that cancels and re-activates them.
MaxTripBookings == 2
\* Payment attempts initiated in a run.
MaxPayments == 1
\* Payment attempts initiated for one booking in a run that pays it twice.
MaxAttempts == 2

(* ------------------------------ fixtures ------------------------------- *)

Users == {1, 2}
Seats == {1, 2}
BookingIds ==
    1..(IF MaxBookings >= MaxRaceBookings /\ MaxBookings >= MaxTripBookings THEN MaxBookings
        ELSE IF MaxRaceBookings >= MaxTripBookings THEN MaxRaceBookings
        ELSE MaxTripBookings)
PaymentIds == 1..(IF MaxPayments >= MaxAttempts THEN MaxPayments ELSE MaxAttempts)
Workers == {1, 2}

\* models/trip.py Seat.price_multiplier, Numeric(3, 2), in hundredths.
SeatTable == [s \in Seats |-> [price_multiplier |-> IF s = 1 THEN 100 ELSE 125]]

\* The promo codes an operator created (admin_promos.py create_promo_code):
\* SAVE10 is a live code, OLD10 has been switched off, PAST10 ran out before
\* tick 0, LATE10 starts at tick 1, BIG10 asks for a purchase of 200.00.
\* Each gives 10 %, at most 10.00; all but BIG10 ask for a purchase of 40.00.
NoPromo == "none"
PromoCodes == {"SAVE10", "OLD10", "PAST10", "LATE10", "BIG10"}
\* What a caller may send as promo_code: nothing, a known code, an unknown one.
PromoInputs == {NoPromo, "BOGUS"} \cup PromoCodes

BookingStatus == {"pending", "confirmed", "cancelled", "completed"}
PaymentStatus == {"unpaid", "paid", "refunded", "failed"}
SeatStatus == {"available", "booked", "blocked"}
TripStatus == {"scheduled", "cancelled"}

\* payments.py TransactionStatus, as the handlers use it.
TransactionStatus == {"initiated", "processing", "success", "failed", "cancelled", "refunded"}

VARIABLES
    now,        \* datetime.utcnow()
    trip,       \* the trips row
    seats,      \* the seats rows of the trip: status, booking_id
    bookings,   \* the bookings rows by id; booking_status "none": no such row
    nextId,     \* the bookings id sequence
    promos,     \* the promo_codes rows
    txn,        \* per worker: the request in flight between its reads and its commit
    resp,       \* the response on its way to the caller: handler and HTTP status
    hist,       \* history: whether the last change was a create, or its cancellation
    payments    \* the payments rows by id; status "none": no such row

vars == <<now, trip, seats, bookings, nextId, promos, txn, resp, hist, payments>>
db == <<trip, seats, bookings, nextId, promos>>

(* ------------------------------ helpers -------------------------------- *)

RECURSIVE SumOver(_, _)
SumOver(S, f) ==
    IF S = {} THEN 0
    ELSE LET x == CHOOSE y \in S : TRUE IN f[x] + SumOver(S \ {x}, f)

Max(a, b) == IF a >= b THEN a ELSE b

\* round(x, 2) of a non-negative amount n/d cents: to the nearest cent, a tie
\* to the even cent.
RoundDiv(n, d) ==
    LET q == n \div d
        r == n % d
    IN IF 2 * r > d THEN q + 1
       ELSE IF 2 * r < d THEN q
       ELSE IF q % 2 = 0 THEN q ELSE q + 1

NoBooking ==
    [user_id |-> 0, promo_code |-> NoPromo, booking_status |-> "none",
     payment_status |-> "unpaid", num_seats |-> 0, subtotal |-> 0,
     discount_amount |-> 0, total_amount |-> 0, seat_ids |-> {},
     paid_when_cancelled |-> FALSE]

Idle == [kind |-> "idle"]

NoResponse == [op |-> "none", code |-> 0]

NoHist == [phase |-> "none", booking_id |-> 0, avail_before |-> 0]

\* No payments row.  processed and succeeded are history: the attempt has
\* received a gateway outcome, and it has reached success.
NoPayment ==
    [booking_id |-> 0, user_id |-> 0, amount |-> 0, status |-> "none",
     failure_code |-> "", refund_amount |-> 0, processed |-> FALSE, succeeded |-> FALSE]

Exists(b) == bookings[b].booking_status # "none"

\* Booking.seats: the seats whose booking_id is the booking's id.
BookingSeats(b) == {s \in Seats : seats[s].booking_id = b}

(* ------------------------------ models --------------------------------- *)

\* Seat.calculate_price: base_fare * price_multiplier, in hundredths of a cent.
calculate_price(s) == trip.base_fare * SeatTable[s].price_multiplier

\* An is_valid whose last valid moment is before valid_until.
is_valid_ExclusiveUntil(p) ==
    IF ~promos[p].is_active THEN "inactive"
    ELSE IF now < promos[p].valid_from THEN "not_yet_valid"
    ELSE IF now >= promos[p].valid_until THEN "expired"
    ELSE IF promos[p].usage_limit # 0 /\ promos[p].used_count >= promos[p].usage_limit
         THEN "usage_limit_reached"
    ELSE "valid"

\* PromoCode.is_valid
is_valid(p) ==
    IF ~promos[p].is_active THEN "inactive"
    ELSE IF now < promos[p].valid_from THEN "not_yet_valid"
    ELSE IF now > promos[p].valid_until THEN "expired"
    ELSE IF promos[p].usage_limit # 0 /\ promos[p].used_count >= promos[p].usage_limit
         THEN "usage_limit_reached"
    ELSE "valid"

\* A check_user_eligibility that counts only the bookings still in force.
check_user_eligibility_LiveOnly(p, u) ==
    \/ promos[p].usage_per_user = 0
    \/ Cardinality({b \in BookingIds :
            /\ Exists(b) /\ bookings[b].user_id = u /\ bookings[b].promo_code = p
            /\ bookings[b].booking_status # "cancelled"})
         < promos[p].usage_per_user

\* PromoCode.check_user_eligibility: counts the user's bookings with the code,
\* whatever their status.
check_user_eligibility(p, u) ==
    \/ promos[p].usage_per_user = 0
    \/ Cardinality({b \in BookingIds :
            Exists(b) /\ bookings[b].user_id = u /\ bookings[b].promo_code = p})
         < promos[p].usage_per_user

\* A calculate_discount that ignores max_discount_amount.
calculate_discount_NoCap(p, amount) ==
    IF promos[p].min_purchase_amount # 0 /\ amount < promos[p].min_purchase_amount
    THEN 0
    ELSE RoundDiv(amount * promos[p].discount_percentage, 100)

\* PromoCode.calculate_discount
calculate_discount(p, amount) ==
    IF promos[p].min_purchase_amount # 0 /\ amount < promos[p].min_purchase_amount
    THEN 0
    ELSE LET pct == amount * promos[p].discount_percentage
         IN IF promos[p].max_discount_amount # 0
               /\ pct > promos[p].max_discount_amount * 100
            THEN promos[p].max_discount_amount
            ELSE RoundDiv(pct, 100)

(* ------------------------------ initial state -------------------------- *)

\* A scheduled trip at a fare of 49.99 with every seat available
\* (admin_trips.py create_trip sets available_seats = total_seats), no booking
\* yet, the promo codes unused.
\* usage_limit, usage_per_user, max_discount_amount, min_purchase_amount: 0
\* stands for None (the admin routes refuse the number 0 for the first three,
\* and the code tests the last two by truthiness).
Init ==
    /\ now = 0
    /\ trip = [status |-> "scheduled", departure_time |-> 0, base_fare |-> 4999,
               total_seats |-> Cardinality(Seats),
               available_seats |-> Cardinality(Seats)]
    /\ seats = [s \in Seats |-> [status |-> "available", booking_id |-> 0]]
    /\ bookings = [b \in BookingIds |-> NoBooking]
    /\ nextId = 1
    /\ promos = [p \in PromoCodes |->
            [discount_percentage |-> 10, max_discount_amount |-> 1000,
             min_purchase_amount |-> IF p = "BIG10" THEN 20000 ELSE 4000,
             usage_limit |-> 1, usage_per_user |-> 1, used_count |-> 0,
             valid_from |-> IF p = "LATE10" THEN 1 ELSE IF p = "PAST10" THEN -2 ELSE 0,
             valid_until |-> IF p = "PAST10" THEN -1 ELSE 2,
             is_active |-> (p # "OLD10")]]
    /\ txn = [w \in Workers |-> Idle]
    /\ resp = NoResponse
    /\ hist = NoHist
    /\ payments = [i \in PaymentIds |-> NoPayment]

\* Requests are served one at a time: a handler starts once the previous
\* response has reached its caller.
Ready == resp = NoResponse

\* The response of a handler: which handler answered and its HTTP status.
Response(op, code) == [op |-> op, code |-> code]

\* A handler that returns before it has written anything.
Reject(op, code) ==
    /\ resp' = Response(op, code)
    /\ UNCHANGED <<now, trip, seats, bookings, nextId, promos, txn, hist, payments>>

\* The caller receives the response.
Deliver ==
    /\ resp # NoResponse
    /\ resp' = NoResponse
    /\ UNCHANGED <<now, trip, seats, bookings, nextId, promos, txn, hist, payments>>

(* ------------------------------ create_booking ------------------------- *)

\* bookings.py create_booking, lines 81-164: everything the handler reads and
\* decides before it writes.  S is the set of seat ids in the request (the
\* validator has refused an empty or repeating list), p the promo code sent.
CreateRead(u, S, p) ==
    LET found == S \cap Seats
        subtotal == RoundDiv(SumOver(found, [s \in found |-> calculate_price(s)]), 100)
        error ==
            IF trip.status = "none" THEN "trip_not_found"
            ELSE IF trip.status # "scheduled" THEN "trip_not_scheduled"
            ELSE IF trip.departure_time < now THEN "trip_departed"
            ELSE IF Cardinality(found) # Cardinality(S) THEN "seat_not_found"
            ELSE IF \E s \in found : seats[s].status # "available" THEN "seat_unavailable"
            ELSE IF trip.available_seats < Cardinality(S) THEN "not_enough_seats"
            ELSE IF p = NoPromo THEN ""
            ELSE IF p \notin PromoCodes THEN "promo_unknown"
            ELSE IF is_valid(p) # "valid" THEN is_valid(p)
            ELSE IF ~check_user_eligibility(p, u) THEN "promo_ineligible"
            ELSE IF promos[p].min_purchase_amount # 0
                    /\ subtotal < promos[p].min_purchase_amount THEN "promo_minimum"
            ELSE ""
        code ==
            IF error = "" THEN 201
            ELSE IF error \in {"trip_not_found", "seat_not_found"} THEN 404
            ELSE IF error \in {"seat_unavailable", "not_enough_seats"} THEN 409
            ELSE 400
        discount == IF error = "" /\ p # NoPromo THEN calculate_discount(p, subtotal) ELSE 0
    IN [kind |-> "create", code |-> code, error |-> error, user_id |-> u,
        seat_ids |-> S, promo_code |-> p, subtotal |-> subtotal,
        discount_amount |-> discount, total_amount |-> subtotal - discount,
        available_seats |-> trip.available_seats,
        used_count |-> IF error = "" /\ p # NoPromo THEN promos[p].used_count ELSE 0]

\* A create_booking that marks the seats booked and leaves seat.booking_id unset.
CreateWrite_NoBackref(r) ==
    /\ bookings' = [bookings EXCEPT ![nextId] =
            [user_id |-> r.user_id, promo_code |-> r.promo_code,
             booking_status |-> "confirmed", payment_status |-> "unpaid",
             num_seats |-> Cardinality(r.seat_ids), subtotal |-> r.subtotal,
             discount_amount |-> r.discount_amount, total_amount |-> r.total_amount,
             seat_ids |-> r.seat_ids, paid_when_cancelled |-> FALSE]]
    /\ nextId' = nextId + 1
    /\ seats' = [s \in Seats |->
            IF s \in r.seat_ids THEN [status |-> "booked", booking_id |-> 0]
            ELSE seats[s]]
    /\ trip' = [trip EXCEPT !.available_seats = r.available_seats - Cardinality(r.seat_ids)]
    /\ promos' = IF r.promo_code = NoPromo THEN promos
                 ELSE [promos EXCEPT ![r.promo_code].used_count = r.used_count + 1]

\* bookings.py create_booking, lines 166-199: the rows the handler writes, from
\* what it read (r): the new booking, each seat, the trip counter and the promo
\* counter are assigned the values computed from the read.
CreateWrite(r) ==
    /\ bookings' = [bookings EXCEPT ![nextId] =
            [user_id |-> r.user_id, promo_code |-> r.promo_code,
             booking_status |-> "confirmed", payment_status |-> "unpaid",
             num_seats |-> Cardinality(r.seat_ids), subtotal |-> r.subtotal,
             discount_amount |-> r.discount_amount, total_amount |-> r.total_amount,
             seat_ids |-> r.seat_ids, paid_when_cancelled |-> FALSE]]
    /\ nextId' = nextId + 1
    /\ seats' = [s \in Seats |->
            IF s \in r.seat_ids THEN [status |-> "booked", booking_id |-> nextId]
            ELSE seats[s]]
    /\ trip' = [trip EXCEPT !.available_seats = r.available_seats - Cardinality(r.seat_ids)]
    /\ promos' = IF r.promo_code = NoPromo THEN promos
                 ELSE [promos EXCEPT ![r.promo_code].used_count = r.used_count + 1]

\* A create_booking that takes the seats off the counter before it looks at
\* the promo code, and returns the promo error without a rollback.
CreateBooking_CountFirst(u, S, p) ==
    /\ Ready
    /\ LET r == CreateRead(u, S, p)
       IN IF r.code = 201
          THEN /\ nextId <= MaxBookings
               /\ CreateWrite(r)
               /\ resp' = Response("create", 201)
               /\ hist' = [phase |-> "created", booking_id |-> nextId,
                           avail_before |-> trip.available_seats]
               /\ UNCHANGED <<now, txn, payments>>
          ELSE /\ resp' = Response("create", r.code)
               /\ trip' = [trip EXCEPT !.available_seats =
                       IF r.code = 400 /\ p # NoPromo THEN @ - Cardinality(S) ELSE @]
               /\ UNCHANGED <<now, seats, bookings, nextId, promos, txn, hist, payments>>

\* POST /bookings/ served alone, in a run that creates at most n bookings.
CreateBookingUpTo(n, u, S, p) ==
    /\ Ready
    /\ LET r == CreateRead(u, S, p)
       IN IF r.code = 201
          THEN /\ nextId <= n
               /\ CreateWrite(r)
               /\ resp' = Response("create", 201)
               /\ hist' = [phase |-> "created", booking_id |-> nextId,
                           avail_before |-> trip.available_seats]
               /\ UNCHANGED <<now, txn, payments>>
          ELSE Reject("create", r.code)

CreateBooking(u, S, p) == CreateBookingUpTo(MaxBookings, u, S, p)

(* ------------------------------ cancel_booking ------------------------- *)

\* A cancel_booking without the check of lines 355-357 (completed bookings).
CancelRead_NoCompletedCheck(u, b) ==
    LET error ==
            IF ~Exists(b) THEN "not_found"
            ELSE IF bookings[b].user_id # u THEN "unauthorized"
            ELSE IF bookings[b].booking_status = "cancelled" THEN "already_cancelled"
            ELSE IF trip.departure_time < now THEN "trip_departed"
            ELSE ""
        code ==
            IF error = "" THEN 200
            ELSE IF error = "not_found" THEN 404
            ELSE IF error = "unauthorized" THEN 403
            ELSE 400
        p == bookings[b].promo_code
    IN [kind |-> "cancel", code |-> code, error |-> error, booking_id |-> b,
        seat_ids |-> BookingSeats(b), num_seats |-> bookings[b].num_seats,
        payment_status |-> bookings[b].payment_status,
        available_seats |-> trip.available_seats,
        promo_code |-> p,
        used_count |-> IF p \in PromoCodes THEN promos[p].used_count ELSE 0]

\* bookings.py cancel_booking, lines 342-382: what the handler reads and
\* decides; the seats are those of booking.seats, the relationship query.
CancelRead(u, b) ==
    LET error ==
            IF ~Exists(b) THEN "not_found"
            ELSE IF bookings[b].user_id # u THEN "unauthorized"
            ELSE IF bookings[b].booking_status = "cancelled" THEN "already_cancelled"
            ELSE IF bookings[b].booking_status = "completed" THEN "already_completed"
            ELSE IF trip.departure_time < now THEN "trip_departed"
            ELSE ""
        code ==
            IF error = "" THEN 200
            ELSE IF error = "not_found" THEN 404
            ELSE IF error = "unauthorized" THEN 403
            ELSE 400
        p == bookings[b].promo_code
    IN [kind |-> "cancel", code |-> code, error |-> error, booking_id |-> b,
        seat_ids |-> BookingSeats(b), num_seats |-> bookings[b].num_seats,
        payment_status |-> bookings[b].payment_status,
        available_seats |-> trip.available_seats,
        promo_code |-> p,
        used_count |-> IF p \in PromoCodes THEN promos[p].used_count ELSE 0]

\* A cancel_booking that leaves the seats as they are.
CancelWrite_KeepSeats(r) ==
    /\ bookings' = [bookings EXCEPT
            ![r.booking_id].booking_status = "cancelled",
            ![r.booking_id].payment_status =
                IF r.payment_status = "paid" THEN "refunded" ELSE @,
            ![r.booking_id].paid_when_cancelled = (r.payment_status = "paid")]
    /\ trip' = [trip EXCEPT !.available_seats = r.available_seats + r.num_seats]
    /\ promos' = IF r.promo_code \in PromoCodes
                 THEN [promos EXCEPT ![r.promo_code].used_count = Max(0, r.used_count - 1)]
                 ELSE promos
    /\ UNCHANGED <<nextId, seats>>

\* bookings.py cancel_booking, lines 363-384: the rows the handler writes.
CancelWrite(r) ==
    /\ bookings' = [bookings EXCEPT
            ![r.booking_id].booking_status = "cancelled",
            ![r.booking_id].payment_status =
                IF r.payment_status = "paid" THEN "refunded" ELSE @,
            ![r.booking_id].paid_when_cancelled = (r.payment_status = "paid")]
    /\ seats' = [s \in Seats |->
            IF s \in r.seat_ids THEN [status |-> "available", booking_id |-> 0]
            ELSE seats[s]]
    /\ trip' = [trip EXCEPT !.available_seats = r.available_seats + r.num_seats]
    /\ promos' = IF r.promo_code \in PromoCodes
                 THEN [promos EXCEPT ![r.promo_code].used_count = Max(0, r.used_count - 1)]
                 ELSE promos
    /\ UNCHANGED nextId

\* PUT /bookings/<id>/cancel served alone.
CancelBooking(u, b) ==
    /\ Ready
    /\ LET r == CancelRead(u, b)
       IN IF r.code = 200
          THEN /\ CancelWrite(r)
               /\ resp' = Response("cancel", 200)
               /\ hist' = IF hist.phase = "created" /\ hist.booking_id = b
                           THEN [hist EXCEPT !.phase = "cancelled"]
                           ELSE NoHist
               /\ UNCHANGED <<now, txn, payments>>
          ELSE Reject("cancel", r.code)

(* ------------------------------ update_payment_status ------------------ *)

\* An update_payment_status without the check of lines 435-437 (cancelled
\* bookings).
UpdatePaymentStatus_NoCancelledCheck(u, b, ps) ==
    /\ Ready
    /\ IF ~Exists(b) THEN Reject("payment", 404)
       ELSE IF bookings[b].user_id # u THEN Reject("payment", 403)
       ELSE /\ bookings' = [bookings EXCEPT ![b].payment_status = ps]
            /\ resp' = Response("payment", 200)
            /\ hist' = NoHist
            /\ UNCHANGED <<now, trip, seats, nextId, promos, txn, payments>>

\* bookings.py update_payment_status (PUT /bookings/<id>/payment); ps is the
\* payment_status of the request body, "paid" or "failed".
UpdatePaymentStatus(u, b, ps) ==
    /\ Ready
    /\ IF ~Exists(b) THEN Reject("payment", 404)
       ELSE IF bookings[b].user_id # u THEN Reject("payment", 403)
       ELSE IF bookings[b].booking_status = "cancelled"
       THEN Reject("payment", 400)
       ELSE /\ bookings' = [bookings EXCEPT ![b].payment_status = ps]
            /\ resp' = Response("payment", 200)
            /\ hist' = NoHist
            /\ UNCHANGED <<now, trip, seats, nextId, promos, txn, payments>>

(* ------------------------------ payments ------------------------------- *)

\* admin_bookings.py update_payment_status (PUT /admin/bookings/<id>/payment);
\* ps is any PaymentStatus.
AdminUpdatePaymentStatus(b, ps) ==
    /\ Ready
    /\ IF ~Exists(b) THEN Reject("admin_payment", 404)
       ELSE /\ bookings' = [bookings EXCEPT ![b].payment_status = ps]
            /\ resp' = Response("admin_payment", 200)
            /\ hist' = NoHist
            /\ UNCHANGED <<now, trip, seats, nextId, promos, txn, payments>>

PaymentExists(i) == payments[i].status # "none"

\* The payments id sequence: no handler deletes a payments row.
nextPaymentId == 1 + Cardinality({i \in PaymentIds : PaymentExists(i)})

\* payments.py simulate_payment_processing: the outcome of a test_scenario;
\* a scenario it does not know succeeds.
GatewayFailures ==
    [insufficient_funds |-> "INSUFFICIENT_FUNDS", invalid_card |-> "INVALID_CARD",
     network_error |-> "NETWORK_ERROR", timeout |-> "TIMEOUT", declined |-> "DECLINED"]

simulate_payment_processing(test_scenario) ==
    IF test_scenario \in DOMAIN GatewayFailures
    THEN [success |-> FALSE, error_code |-> GatewayFailures[test_scenario]]
    ELSE [success |-> TRUE, error_code |-> ""]

\* payments.py initiate_payment (POST /payments/initiate), in a run of at most
\* n payment attempts.
InitiatePaymentUpTo(n, u, b) ==
    /\ Ready
    /\ IF ~Exists(b) THEN Reject("initiate", 404)
       ELSE IF bookings[b].user_id # u THEN Reject("initiate", 403)
       ELSE IF bookings[b].payment_status = "paid" THEN Reject("initiate", 400)
       ELSE IF bookings[b].booking_status = "cancelled" THEN Reject("initiate", 400)
       ELSE /\ nextPaymentId <= n
            /\ payments' = [payments EXCEPT ![nextPaymentId] =
                    [booking_id |-> b, user_id |-> u, amount |-> bookings[b].total_amount,
                     status |-> "initiated", failure_code |-> "", refund_amount |-> 0,
                     processed |-> FALSE, succeeded |-> FALSE]]
            /\ resp' = Response("initiate", 201)
            /\ UNCHANGED <<now, trip, seats, bookings, nextId, promos, txn, hist>>

InitiatePayment(u, b) == InitiatePaymentUpTo(MaxPayments, u, b)

\* A process_payment that projects a gateway failure onto the booking.
ProcessPayment_FailsBooking(u, i, test_scenario) ==
    /\ Ready
    /\ IF ~PaymentExists(i) THEN Reject("process", 404)
       ELSE IF payments[i].user_id # u THEN Reject("process", 403)
       ELSE IF payments[i].status \in {"success", "failed", "cancelled"}
       THEN Reject("process", 400)
       ELSE LET g == simulate_payment_processing(test_scenario)
            IN /\ payments' = [payments EXCEPT
                      ![i].status = IF g.success THEN "success" ELSE "failed",
                      ![i].failure_code = g.error_code,
                      ![i].processed = TRUE,
                      ![i].succeeded = @ \/ g.success]
               /\ bookings' = [bookings EXCEPT ![payments[i].booking_id].payment_status =
                                    IF g.success THEN "paid" ELSE "failed"]
               /\ resp' = Response("process", IF g.success THEN 200 ELSE 400)
               /\ hist' = NoHist
               /\ UNCHANGED <<now, trip, seats, nextId, promos, txn>>

\* A process_payment without the ownership check of lines 274-276.
ProcessPayment_NoOwnerCheck(u, i, test_scenario) ==
    /\ Ready
    /\ IF ~PaymentExists(i) THEN Reject("process", 404)
       ELSE IF payments[i].status \in {"success", "failed", "cancelled"}
       THEN Reject("process", 400)
       ELSE LET g == simulate_payment_processing(test_scenario)
            IN IF g.success
               THEN /\ payments' = [payments EXCEPT ![i].status = "success",
                                                    ![i].processed = TRUE,
                                                    ![i].succeeded = TRUE]
                    /\ bookings' = [bookings EXCEPT
                            ![payments[i].booking_id].payment_status = "paid"]
                    /\ resp' = Response("process", 200)
                    /\ hist' = NoHist
                    /\ UNCHANGED <<now, trip, seats, nextId, promos, txn>>
               ELSE /\ payments' = [payments EXCEPT ![i].status = "failed",
                                                    ![i].failure_code = g.error_code,
                                                    ![i].processed = TRUE]
                    /\ resp' = Response("process", 400)
                    /\ UNCHANGED <<now, trip, seats, bookings, nextId, promos, txn, hist>>

\* payments.py process_payment (POST /payments/<id>/process).
ProcessPayment(u, i, test_scenario) ==
    /\ Ready
    /\ IF ~PaymentExists(i) THEN Reject("process", 404)
       ELSE IF payments[i].user_id # u THEN Reject("process", 403)
       ELSE IF payments[i].status \in {"success", "failed", "cancelled"}
       THEN Reject("process", 400)
       ELSE LET g == simulate_payment_processing(test_scenario)
            IN IF g.success
               THEN /\ payments' = [payments EXCEPT ![i].status = "success",
                                                    ![i].processed = TRUE,
                                                    ![i].succeeded = TRUE]
                    /\ bookings' = [bookings EXCEPT
                            ![payments[i].booking_id].payment_status = "paid"]
                    /\ resp' = Response("process", 200)
                    /\ hist' = NoHist
                    /\ UNCHANGED <<now, trip, seats, nextId, promos, txn>>
               ELSE /\ payments' = [payments EXCEPT ![i].status = "failed",
                                                    ![i].failure_code = g.error_code,
                                                    ![i].processed = TRUE]
                    /\ resp' = Response("process", 400)
                    /\ UNCHANGED <<now, trip, seats, bookings, nextId, promos, txn, hist>>

\* A request_refund without the amount check of lines 480-482.
RequestRefund_AnyAmount(u, i, refund_amount) ==
    /\ Ready
    /\ IF ~PaymentExists(i) THEN Reject("refund", 404)
       ELSE IF payments[i].user_id # u THEN Reject("refund", 403)
       ELSE IF payments[i].status # "success" THEN Reject("refund", 400)
       ELSE /\ payments' = [payments EXCEPT ![i].status = "refunded",
                                            ![i].refund_amount = refund_amount]
            /\ bookings' = [bookings EXCEPT
                    ![payments[i].booking_id].payment_status = "refunded"]
            /\ resp' = Response("refund", 200)
            /\ hist' = NoHist
            /\ UNCHANGED <<now, trip, seats, nextId, promos, txn>>

\* payments.py request_refund (POST /payments/<id>/refund).
RequestRefund(u, i, refund_amount) ==
    /\ Ready
    /\ IF ~PaymentExists(i) THEN Reject("refund", 404)
       ELSE IF payments[i].user_id # u THEN Reject("refund", 403)
       ELSE IF payments[i].status # "success" THEN Reject("refund", 400)
       ELSE IF refund_amount <= 0 \/ refund_amount > payments[i].amount
       THEN Reject("refund", 400)
       ELSE /\ payments' = [payments EXCEPT ![i].status = "refunded",
                                            ![i].refund_amount = refund_amount]
            /\ bookings' = [bookings EXCEPT
                    ![payments[i].booking_id].payment_status = "refunded"]
            /\ resp' = Response("refund", 200)
            /\ hist' = NoHist
            /\ UNCHANGED <<now, trip, seats, nextId, promos, txn>>

(* ------------------------------ admin: booking status ------------------ *)

\* admin_bookings.py update_booking_status, lines 163-206: what it reads.
AdminStatusRead(b, new_status) ==
    LET old_status == bookings[b].booking_status
        seat_ids == BookingSeats(b)
        branch ==
            IF new_status = "cancelled" /\ old_status # "cancelled" THEN "cancel"
            ELSE IF old_status = "cancelled" /\ new_status # "cancelled" THEN "rebook"
            ELSE "plain"
        error ==
            IF ~Exists(b) THEN "not_found"
            ELSE IF branch = "rebook"
                    /\ Cardinality({s \in seat_ids : seats[s].status = "available"})
                         # Cardinality(seat_ids)
            THEN "seats_no_longer_available"
            ELSE ""
    IN [kind |-> "admin_status", branch |-> branch, error |-> error,
        code |-> IF error = "" THEN 200 ELSE IF error = "not_found" THEN 404 ELSE 409,
        booking_id |-> b, new_status |-> new_status, seat_ids |-> seat_ids,
        num_seats |-> bookings[b].num_seats,
        payment_status |-> bookings[b].payment_status,
        available_seats |-> trip.available_seats]

\* admin_bookings.py update_booking_status, lines 181-217: what it writes.
AdminStatusWrite(r) ==
    /\ bookings' = [bookings EXCEPT
            ![r.booking_id].booking_status = r.new_status,
            ![r.booking_id].payment_status =
                IF r.branch = "cancel" /\ r.payment_status = "paid" THEN "refunded" ELSE @,
            ![r.booking_id].paid_when_cancelled =
                IF r.branch = "cancel" THEN r.payment_status = "paid" ELSE @]
    /\ seats' = [s \in Seats |->
            IF s \in r.seat_ids /\ r.branch = "cancel"
            THEN [status |-> "available", booking_id |-> 0]
            ELSE IF s \in r.seat_ids /\ r.branch = "rebook"
            THEN [status |-> "booked", booking_id |-> r.booking_id]
            ELSE seats[s]]
    /\ trip' = [trip EXCEPT !.available_seats =
            IF r.branch = "cancel" THEN r.available_seats + r.num_seats
            ELSE IF r.branch = "rebook" THEN r.available_seats - r.num_seats
            ELSE @]
    /\ UNCHANGED <<nextId, promos>>

\* PUT /admin/bookings/<id>/status served alone.
AdminUpdateBookingStatus(b, new_status) ==
    /\ Ready
    /\ LET r == AdminStatusRead(b, new_status)
       IN IF r.code = 200
          THEN /\ AdminStatusWrite(r)
               /\ resp' = Response("admin_status", 200)
               /\ hist' = NoHist
               /\ UNCHANGED <<now, txn, payments>>
          ELSE Reject("admin_status", r.code)

(* ------------------------------ admin: delete booking ------------------ *)

\* A delete_booking that returns the seats of a cancelled booking as well.
AdminDeleteBooking_AlwaysReturns(b) ==
    /\ Ready
    /\ IF ~Exists(b) THEN Reject("admin_delete", 404)
       ELSE /\ seats' = [s \in Seats |->
                    IF s \in BookingSeats(b)
                    THEN [status |-> "available", booking_id |-> 0]
                    ELSE seats[s]]
            /\ trip' = [trip EXCEPT !.available_seats = @ + bookings[b].num_seats]
            /\ bookings' = [bookings EXCEPT ![b] = NoBooking]
            /\ resp' = Response("admin_delete", 200)
            /\ hist' = NoHist
            /\ UNCHANGED <<now, nextId, promos, txn, payments>>

\* admin_bookings.py delete_booking
AdminDeleteBooking(b) ==
    /\ Ready
    /\ IF ~Exists(b) THEN Reject("admin_delete", 404)
       ELSE LET live == bookings[b].booking_status # "cancelled"
            IN /\ seats' = [s \in Seats |->
                       IF live /\ s \in BookingSeats(b)
                       THEN [status |-> "available", booking_id |-> 0]
                       ELSE seats[s]]
               /\ trip' = [trip EXCEPT !.available_seats =
                       IF live THEN @ + bookings[b].num_seats ELSE @]
               /\ bookings' = [bookings EXCEPT ![b] = NoBooking]
               /\ resp' = Response("admin_delete", 200)
               /\ hist' = NoHist
               /\ UNCHANGED <<now, nextId, promos, txn, payments>>

(* ------------------------------ admin: seat and trip ------------------- *)

\* admin_trips.py update_seat, the status field (lines 508-520).
AdminUpdateSeat(s, new_status) ==
    /\ Ready
    /\ IF seats[s].status = "booked" /\ seats[s].booking_id # 0
       THEN Reject("admin_seat", 400)
       ELSE /\ seats' = [seats EXCEPT ![s].status = new_status]
            /\ resp' = Response("admin_seat", 200)
            /\ hist' = NoHist
            /\ UNCHANGED <<now, trip, bookings, nextId, promos, txn, payments>>

\* admin_trips.py update_trip, the status field (lines 306-312).
AdminUpdateTripStatus(st) ==
    /\ Ready
    /\ trip' = [trip EXCEPT !.status = st]
    /\ resp' = Response("admin_trip", 200)
    /\ hist' = NoHist
    /\ UNCHANGED <<now, seats, bookings, nextId, promos, txn, payments>>

(* ------------------------------ admin: promo codes -------------------- *)

\* admin_promos.py update_promo_code, the fields usage_limit and
\* usage_per_user.  A field is <<>> when the request leaves it out and <<v>>
\* when it carries v: 0 for null, a negative number for any integer that is
\* not positive.
AdminUpdatePromo(p, usage_limit, usage_per_user) ==
    /\ Ready
    /\ IF usage_limit # <<>> /\ usage_limit[1] < 0 THEN Reject("admin_promo", 400)
       ELSE IF usage_limit # <<>> /\ usage_limit[1] # 0
               /\ usage_limit[1] < promos[p].used_count THEN Reject("admin_promo", 400)
       ELSE IF usage_per_user # <<>> /\ usage_per_user[1] < 0 THEN Reject("admin_promo", 400)
       ELSE IF usage_limit = <<>> /\ usage_per_user = <<>> THEN Reject("admin_promo", 400)
       ELSE /\ promos' = [promos EXCEPT
                    ![p].usage_limit = IF usage_limit = <<>> THEN @ ELSE usage_limit[1],
                    ![p].usage_per_user =
                        IF usage_per_user = <<>> THEN @ ELSE usage_per_user[1]]
            /\ resp' = Response("admin_promo", 200)
            /\ hist' = NoHist
            /\ UNCHANGED <<now, trip, seats, bookings, nextId, txn, payments>>

\* admin_promos.py toggle_promo_code
AdminTogglePromo(p) ==
    /\ Ready
    /\ promos' = [promos EXCEPT ![p].is_active = ~@]
    /\ resp' = Response("admin_toggle", 200)
    /\ hist' = NoHist
    /\ UNCHANGED <<now, trip, seats, bookings, nextId, txn, payments>>

\* The trips row and a seats row after the trip has been deleted.
NoTrip ==
    [status |-> "none", departure_time |-> 0, base_fare |-> 0,
     total_seats |-> 0, available_seats |-> 0]

NoSeat == [status |-> "none", booking_id |-> 0]

\* admin_trips.py delete_trip (DELETE /admin/trips/<id>): refused while a
\* confirmed or pending booking references the trip; otherwise the trip row
\* goes and, by the cascades of models/trip.py lines 65-66, its seats and its
\* bookings with it.
AdminDeleteTrip ==
    /\ Ready
    /\ IF trip.status = "none" THEN Reject("admin_delete_trip", 404)
       ELSE IF Cardinality({b \in BookingIds :
                   bookings[b].booking_status \in {"confirmed", "pending"}}) > 0
       THEN Reject("admin_delete_trip", 409)
       ELSE /\ trip' = NoTrip
            /\ seats' = [s \in Seats |-> NoSeat]
            /\ bookings' = [b \in BookingIds |-> NoBooking]
            /\ resp' = Response("admin_delete_trip", 200)
            /\ hist' = NoHist
            /\ UNCHANGED <<now, nextId, promos, txn, payments>>

\* Time passes between two requests.  The handlers compare the clock with the
\* trip's departure_time and, before departure only, with a promo code's
\* window; once the trip has departed a later clock makes no difference.
Tick ==
    /\ now <= trip.departure_time
    /\ now' = now + 1
    /\ UNCHANGED <<trip, seats, bookings, nextId, promos, txn, resp, hist, payments>>

(* ------------------------------ requests served one at a time ---------- *)

\* The seat lists a caller may send: seats of the trip, and a list naming a
\* seat that is not one of the trip's.
SeatRequests == ((SUBSET Seats) \ {{}}) \cup {{1, 99}}

\* Every handler that touches seats, the trip counter or the promo counter,
\* in every situation it can meet: the trip taken off sale or departed, seats
\* withheld, every kind of promo code.
Next ==
    \/ \E u \in Users, S \in SeatRequests, p \in PromoInputs : CreateBooking(u, S, p)
    \/ \E u \in Users, b \in BookingIds : CancelBooking(u, b)
    \/ \E b \in BookingIds, st \in {"cancelled", "confirmed"} :
            AdminUpdateBookingStatus(b, st)
    \/ \E b \in BookingIds : AdminDeleteBooking(b)
    \/ \E s \in Seats, st \in SeatStatus : AdminUpdateSeat(s, st)
    \/ \E st \in TripStatus : AdminUpdateTripStatus(st)
    \/ Tick
    \/ Deliver

Spec == Init /\ [][Next]_vars

\* The life of a booking of user 1: created, paid or not, cancelled by its
\* owner or by an administrator, completed, re-activated, before and after
\* departure; user 2 sends requests for it as well.
NextLifecycle ==
    \/ \E S \in (SUBSET Seats) \ {{}}, p \in {NoPromo, "SAVE10"} : CreateBooking(1, S, p)
    \/ \E u \in Users, b \in BookingIds : CancelBooking(u, b)
    \/ \E u \in Users, b \in BookingIds, ps \in {"paid", "failed"} :
            UpdatePaymentStatus(u, b, ps)
    \/ \E b \in BookingIds, st \in BookingStatus : AdminUpdateBookingStatus(b, st)
    \/ Tick
    \/ Deliver

SpecLifecycle == Init /\ [][NextLifecycle]_vars

\* The test_scenario values a caller sends to process_payment.
TestScenarios == {"success", "declined", "insufficient_funds", "anything"}

\* The refund_amount values a caller sends: nothing and one cent, the whole
\* amount of a booking (the default) and one cent more.
RefundAmounts ==
    {0, 1} \cup {bookings[b].total_amount + d : b \in {c \in BookingIds : Exists(c)}, d \in {0, 1}}

\* Paying for a booking of user 1: the payment attempts, the payment status
\* set by the customer or by an administrator, a cancellation at any moment.
NextPayments ==
    \/ CreateBooking(1, {1}, NoPromo)
    \/ \E u \in Users, b \in BookingIds : CancelBooking(u, b)
    \/ \E u \in Users, b \in BookingIds, ps \in {"paid", "failed"} :
            UpdatePaymentStatus(u, b, ps)
    \/ \E b \in BookingIds : AdminUpdatePaymentStatus(b, "paid")
    \/ \E u \in Users, b \in BookingIds : InitiatePayment(u, b)
    \/ \E u \in Users, i \in PaymentIds, sc \in TestScenarios : ProcessPayment(u, i, sc)
    \/ \E u \in Users, i \in PaymentIds, a \in RefundAmounts : RequestRefund(u, i, a)
    \/ Deliver

SpecPayments == Init /\ [][NextPayments]_vars

\* Several payment attempts for one booking of user 1, processed one after
\* another.
NextAttempts ==
    \/ CreateBooking(1, {1}, NoPromo)
    \/ \E b \in BookingIds : InitiatePaymentUpTo(MaxAttempts, 1, b)
    \/ \E i \in PaymentIds, sc \in TestScenarios : ProcessPayment(1, i, sc)
    \/ \E i \in PaymentIds, a \in RefundAmounts : RequestRefund(1, i, a)
    \/ Deliver

SpecAttempts == Init /\ [][NextAttempts]_vars

\* A trip whose bookings are cancelled, re-activated and deleted, several of
\* them one after another.
NextSeats ==
    \/ \E S \in (SUBSET Seats) \ {{}} : CreateBookingUpTo(MaxTripBookings, 1, S, NoPromo)
    \/ \E b \in BookingIds : CancelBooking(1, b)
    \/ \E b \in BookingIds, st \in {"cancelled", "confirmed"} :
            AdminUpdateBookingStatus(b, st)
    \/ \E b \in BookingIds : AdminDeleteBooking(b)
    \/ Deliver

SpecSeats == Init /\ [][NextSeats]_vars

\* A trip that an administrator deletes, with bookings in every status.
NextTrips ==
    \/ \E S \in (SUBSET Seats) \ {{}} : CreateBookingUpTo(MaxTripBookings, 1, S, NoPromo)
    \/ \E b \in BookingIds : CancelBooking(1, b)
    \/ \E b \in BookingIds, st \in BookingStatus : AdminUpdateBookingStatus(b, st)
    \/ AdminDeleteTrip
    \/ Deliver

SpecTrips == Init /\ [][NextTrips]_vars

\* A promo code used and given back: creates with SAVE10, cancellations by the
\* customer and by an administrator.
NextPromo ==
    \/ \E u \in Users, S \in (SUBSET Seats) \ {{}}, p \in {NoPromo, "SAVE10"} :
            CreateBookingUpTo(MaxTripBookings, u, S, p)
    \/ \E u \in Users, b \in BookingIds : CancelBooking(u, b)
    \/ \E b \in BookingIds : AdminUpdateBookingStatus(b, "cancelled")
    \/ Deliver

SpecPromo == Init /\ [][NextPromo]_vars

\* The promo_codes rows create_promo_code accepts, over a few values of each
\* field: a percentage in (0, 100], a cap and a minimum that are unset (0) or
\* positive, a usage limit that is unset or 1, valid_from before valid_until
\* around the clock's start.
PromoRows ==
    {[discount_percentage |-> pct, max_discount_amount |-> cap,
      min_purchase_amount |-> min, usage_limit |-> lim, usage_per_user |-> 1,
      used_count |-> 0, valid_from |-> w[1], valid_until |-> w[2], is_active |-> TRUE] :
        pct \in {10, 100}, cap \in {0, 2000}, min \in {0, 5000}, lim \in {0, 1},
        w \in {<<-2, -1>>, <<-1, 0>>, <<0, 1>>, <<1, 2>>}}

\* The state after construction with the promo codes created from one of
\* PromoRows.
InitCodes ==
    /\ now = 0
    /\ trip = [status |-> "scheduled", departure_time |-> 0, base_fare |-> 4999,
               total_seats |-> Cardinality(Seats),
               available_seats |-> Cardinality(Seats)]
    /\ seats = [s \in Seats |-> [status |-> "available", booking_id |-> 0]]
    /\ bookings = [b \in BookingIds |-> NoBooking]
    /\ nextId = 1
    /\ \E row \in PromoRows : promos = [p \in PromoCodes |-> row]
    /\ txn = [w \in Workers |-> Idle]
    /\ resp = NoResponse
    /\ hist = NoHist
    /\ payments = [i \in PaymentIds |-> NoPayment]

\* Bookings made with a promo code that is switched off and on and that the
\* clock passes.
NextCodes ==
    \/ \E u \in Users, S \in (SUBSET Seats) \ {{}} :
            CreateBookingUpTo(MaxTripBookings, u, S, "SAVE10")
    \/ \E u \in Users, b \in BookingIds : CancelBooking(u, b)
    \/ AdminTogglePromo("SAVE10")
    \/ Tick
    \/ Deliver

SpecCodes == InitCodes /\ [][NextCodes]_vars

\* What an administrator sends for usage_limit or usage_per_user: nothing,
\* null, a number that is not positive, a positive number.
LimitInputs == {<<>>, <<0>>, <<-1>>} \cup {<<n>> : n \in 1..MaxTripBookings}

\* A promo code whose limits an administrator changes between the bookings
\* made with it.
NextLimits ==
    \/ \E u \in Users, S \in {{s} : s \in Seats}, p \in {NoPromo, "SAVE10"} :
            CreateBookingUpTo(MaxTripBookings, u, S, p)
    \/ \E u \in Users, b \in BookingIds : CancelBooking(u, b)
    \/ \E l \in LimitInputs, m \in LimitInputs : AdminUpdatePromo("SAVE10", l, m)
    \/ Deliver

SpecLimits == Init /\ [][NextLimits]_vars

(* ------------------------------ overlapping requests ------------------- *)

\* Each worker serves a request in its own database transaction.  No handler
\* locks a row (no with_for_update, no version column) and the database runs
\* at READ COMMITTED, so a worker reads committed rows when it queries and its
\* UPDATEs assign the values it computed from those reads.  A request is two
\* steps: it reads and decides (Begin), then flushes and commits (Commit).

Done(op, code) == [kind |-> "done", op |-> op, code |-> code]

AtRest == \A w \in Workers : txn[w].kind \in {"idle", "done"}

\* Creates that have read and not yet committed.
InFlightCreates == Cardinality({w \in Workers : txn[w].kind = "create"})

\* create_booking up to line 164.
BeginCreate(w, u, S, p) ==
    /\ txn[w] = Idle
    /\ nextId + InFlightCreates <= MaxRaceBookings
    /\ LET r == CreateRead(u, S, p)
       IN txn' = [txn EXCEPT ![w] = IF r.code = 201 THEN r ELSE Done("create", r.code)]
    /\ UNCHANGED <<now, trip, seats, bookings, nextId, promos, resp, hist, payments>>

\* create_booking, lines 166-204.
CommitCreate(w) ==
    /\ txn[w].kind = "create"
    /\ CreateWrite(txn[w])
    /\ txn' = [txn EXCEPT ![w] = Done("create", 201)]
    /\ UNCHANGED <<now, resp, hist, payments>>

\* The worker has answered and takes the next request.
Return(w) ==
    /\ txn[w].kind = "done"
    /\ txn' = [txn EXCEPT ![w] = Idle]
    /\ UNCHANGED <<now, trip, seats, bookings, nextId, promos, resp, hist, payments>>

\* Overlapping create requests.
NextRace ==
    \/ \E w \in Workers, u \in Users, S \in (SUBSET Seats) \ {{}}, p \in {NoPromo, "SAVE10"} :
            BeginCreate(w, u, S, p)
    \/ \E w \in Workers : CommitCreate(w)
    \/ \E w \in Workers : Return(w)

SpecRace == Init /\ [][NextRace]_vars

(* ------------------------------ properties: seat inventory ------------- *)

Released == [status |-> "available", booking_id |-> 0]

BookedSeats == {s \in Seats : seats[s].status = "booked"}

\* C1: after any sequence of completed operations the trip's available_seats
\* equals total_seats minus the number of its seats whose status is booked.
\* Refuted: update_seat sets a free seat to booked (or a booked seat without a
\* back-reference to available) and never touches the counter, and a
\* re-activation out of cancelled takes num_seats off the counter while the
\* booking no longer has a seat to re-book.
C1_CounterMatchesBookedSeats ==
    trip.available_seats = trip.total_seats - Cardinality(BookedSeats)

\* C2: for every seat the booking back-reference is non-null exactly when the
\* status is booked, and a referenced booking is pending, confirmed or
\* completed.  Refuted: update_seat sets a free seat to booked and leaves
\* booking_id NULL.
C2_BackrefIffBooked ==
    \A s \in Seats :
        /\ (seats[s].booking_id # 0) <=> (seats[s].status = "booked")
        /\ seats[s].booking_id # 0 =>
                bookings[seats[s].booking_id].booking_status
                    \in {"pending", "confirmed", "completed"}

\* C6: round trip.  A create for seat set S on a trip with available_seats = A
\* leaves available_seats = A - |S|; cancelling that booking with no other
\* change in between brings available_seats back to A and leaves every seat
\* of S available with a null back-reference.
C6_RoundTrip ==
    /\ hist.phase = "created" =>
            trip.available_seats
                = hist.avail_before - Cardinality(bookings[hist.booking_id].seat_ids)
    /\ hist.phase = "cancelled" =>
            /\ trip.available_seats = hist.avail_before
            /\ \A s \in bookings[hist.booking_id].seat_ids : seats[s] = Released

\* A booking of both seats with a promo code has been created and cancelled
\* again; the cancel has just answered 200.
C6_Witness ==
    /\ hist.phase = "cancelled"
    /\ resp = Response("cancel", 200)
    /\ bookings[hist.booking_id].seat_ids = Seats
    /\ bookings[hist.booking_id].promo_code = "SAVE10"
    /\ hist.avail_before = Cardinality(Seats)

(* ------------------------------ properties: create_booking ------------- *)

\* The sum over S of base_fare x price_multiplier, in hundredths of a cent.
FareSum(S) == SumOver(S, [s \in S |-> calculate_price(s)])

\* What a successful create leaves behind, but for the subtotal: the new
\* booking b for seat set S is confirmed and unpaid, num_seats = |S|,
\* total_amount = subtotal - discount_amount, 0 <= discount_amount <= subtotal,
\* every seat of S is booked with its back-reference set to b, the used_count
\* of the promo code applied has grown by exactly 1 and no other has changed.
CreatedAsSpecified(b) ==
    LET nb == bookings'[b]
    IN /\ nextId' = b + 1
       /\ ~Exists(b)
       /\ nb.booking_status = "confirmed"
       /\ nb.payment_status = "unpaid"
       /\ nb.num_seats = Cardinality(nb.seat_ids)
       /\ nb.total_amount = nb.subtotal - nb.discount_amount
       /\ 0 <= nb.discount_amount
       /\ nb.discount_amount <= nb.subtotal
       /\ \A s \in nb.seat_ids : seats'[s] = [status |-> "booked", booking_id |-> b]
       /\ \A q \in PromoCodes :
              promos'[q].used_count
                  = promos[q].used_count + (IF q = nb.promo_code THEN 1 ELSE 0)

\* C7 as stated: a successful create for seat set S produces a booking that
\* is confirmed and unpaid, with num_seats = |S|, subtotal equal to the sum
\* over S of base_fare x price_multiplier, total_amount = subtotal -
\* discount_amount and 0 <= discount_amount <= subtotal; every seat of S
\* becomes booked with its back-reference set to the new booking; used_count
\* grows by exactly 1 when a promo was applied and is unchanged otherwise.
\* Refuted in the subtotal: create_booking rounds the sum to two decimals, and
\* 49.99 x 1.25 = 62.4875 is stored as 62.49.
C7_CreatePostconditionExact ==
    [][ (resp = NoResponse /\ resp' = Response("create", 201)) =>
          /\ CreatedAsSpecified(nextId)
          /\ bookings'[nextId].subtotal * 100 = FareSum(bookings'[nextId].seat_ids)
      ]_vars

\* C7, amended: as above, with subtotal equal to the sum over S of base_fare x
\* price_multiplier rounded to the nearest cent.
C7_CreatePostcondition ==
    [][ (resp = NoResponse /\ resp' = Response("create", 201)) =>
          LET d == bookings'[nextId].subtotal * 100 - FareSum(bookings'[nextId].seat_ids)
          IN /\ CreatedAsSpecified(nextId)
             /\ -50 <= d
             /\ d <= 50
      ]_vars

\* A create of both seats with SAVE10 has just answered 201; the sum of the
\* seat prices is not a whole number of cents and the discount is the code's
\* cap.
C7_Witness ==
    /\ resp = Response("create", 201)
    /\ hist.phase = "created"
    /\ bookings[hist.booking_id].seat_ids = Seats
    /\ bookings[hist.booking_id].promo_code = "SAVE10"
    /\ bookings[hist.booking_id].subtotal * 100 # FareSum(Seats)
    /\ bookings[hist.booking_id].discount_amount = promos["SAVE10"].max_discount_amount
    /\ promos["SAVE10"].used_count = 1

\* C8: a create-booking request rejected for any validation reason creates no
\* booking and leaves every seat's status and back-reference, the trip's
\* available_seats and every promo's used_count unchanged.
C8_RejectedCreateChangesNothing ==
    [][ (resp = NoResponse /\ resp'.op = "create" /\ resp'.code # 201) =>
          UNCHANGED db
      ]_vars

\* A create has just been refused with 400 on a trip that is on sale and has
\* not departed, every seat free, while SAVE10 stands at its usage limit: the
\* refusal is for a promo code.
C8_Witness ==
    /\ resp = Response("create", 400)
    /\ trip.status = "scheduled"
    /\ trip.departure_time >= now
    /\ \A s \in Seats : seats[s] = Released
    /\ trip.available_seats = Cardinality(Seats)
    /\ promos["SAVE10"].used_count = promos["SAVE10"].usage_limit

(* ------------------------------ properties: cancel_booking ------------- *)

Departed == trip.departure_time < now

\* C9: a customer cancel succeeds only when the booking is pending or
\* confirmed and the trip's departure time has not passed; on a cancelled or
\* completed booking, or after departure, it fails and leaves booking status,
\* payment status, seats, available_seats and every used_count unchanged.
C9_CancelGuard ==
    [][ \A u \in Users, b \in BookingIds :
          (resp = NoResponse /\ resp'.op = "cancel" /\ CancelBooking(u, b)) =>
              /\ resp'.code = 200 =>
                    /\ bookings[b].booking_status \in {"pending", "confirmed"}
                    /\ ~Departed
              /\ (bookings[b].booking_status \in {"cancelled", "completed"}
                    \/ (Exists(b) /\ Departed)) =>
                    /\ resp'.code \in {400, 403}
                    /\ UNCHANGED db
      ]_vars

\* The owner's cancel of a completed booking has just been refused with 400
\* before departure.
C9_Witness ==
    /\ resp = Response("cancel", 400)
    /\ ~Departed
    /\ \E b \in BookingIds : bookings[b].booking_status = "completed"
    /\ \A b \in BookingIds : bookings[b].booking_status \in {"none", "completed"}

\* C10 as stated: cancelling a paid booking sets it cancelled and refunded and
\* releases its seats, and every later customer request to set its payment
\* status to paid fails and leaves payment_status refunded.  Refuted: once an
\* administrator has re-activated the booking, update_payment_status accepts
\* the request.
C10_PaidNeverAgain ==
    [][ \A u \in Users, b \in BookingIds :
          /\ (resp = NoResponse /\ resp' = Response("cancel", 200)
                /\ bookings[b].payment_status = "paid" /\ CancelBooking(u, b)) =>
                  /\ bookings'[b].booking_status = "cancelled"
                  /\ bookings'[b].payment_status = "refunded"
                  /\ \A s \in BookingSeats(b) : seats'[s] = Released
          /\ (resp = NoResponse /\ resp'.op = "payment"
                /\ bookings[b].paid_when_cancelled
                /\ UpdatePaymentStatus(u, b, "paid")) =>
                  /\ resp'.code >= 400
                  /\ bookings'[b].payment_status = "refunded"
      ]_vars

\* C10, amended: cancelling a paid booking sets it cancelled and refunded and
\* releases its seats; while the booking stays cancelled every customer
\* request to set its payment status fails and changes nothing.
C10_PaidNotWhileCancelled ==
    [][ \A u \in Users, b \in BookingIds :
          /\ (resp = NoResponse /\ resp' = Response("cancel", 200)
                /\ bookings[b].payment_status = "paid" /\ CancelBooking(u, b)) =>
                  /\ bookings'[b].booking_status = "cancelled"
                  /\ bookings'[b].payment_status = "refunded"
                  /\ \A s \in BookingSeats(b) : seats'[s] = Released
          /\ \A ps \in {"paid", "failed"} :
                (resp = NoResponse /\ resp'.op = "payment"
                    /\ bookings[b].booking_status = "cancelled"
                    /\ UpdatePaymentStatus(u, b, ps)) =>
                      /\ resp'.code >= 400
                      /\ UNCHANGED db
      ]_vars

\* A booking cancelled while paid stands cancelled and refunded, its seats are
\* free, and a payment-status request on it has just been refused with 400.
C10_Witness ==
    /\ resp = Response("payment", 400)
    /\ \E b \in BookingIds :
          /\ bookings[b].paid_when_cancelled
          /\ bookings[b].booking_status = "cancelled"
          /\ bookings[b].payment_status = "refunded"
          /\ \A s \in bookings[b].seat_ids : seats[s] = Released

(* ------------------------------ properties: overlapping creates -------- *)

Created == {b \in BookingIds : Exists(b)}

\* The bookings whose request named seat s.
Holders(s) == {b \in Created : s \in bookings[b].seat_ids}

\* C3: of two create requests that overlap in time and share a seat at most
\* one succeeds, and the shared seat references the successful booking.
\* Refuted: both requests read the seat as available before either commits,
\* and both commit.
C3_OneWinnerPerSeat ==
    \A s \in Seats :
        /\ Cardinality(Holders(s)) <= 1
        /\ Holders(s) # {} => seats[s].booking_id \in Holders(s)

\* C4: once every request has finished, available_seats is its prior value
\* less the seats reserved by the successful creates: no update of the
\* counter is lost.  Stated for creates that share no seat.  Refuted: each
\* create writes the counter it read less its own seats, so the later commit
\* overwrites the earlier one.
C4_NoLostCounterUpdate ==
    (AtRest /\ \A s \in Seats : Cardinality(Holders(s)) <= 1) =>
        trip.available_seats
            = trip.total_seats
                - SumOver(Created, [b \in Created |-> bookings[b].num_seats])

\* C5: used_count never exceeds usage_limit, and the creates that succeed
\* with a code never outnumber usage_limit less the used_count they started
\* from (0 for every code).  Stated for creates that share no seat.  Refuted:
\* two overlapping creates both read used_count 0 against the limit 1, and
\* both commit.
C5_UsageLimitHolds ==
    \A p \in PromoCodes :
        (promos[p].usage_limit # 0 /\ \A s \in Seats : Cardinality(Holders(s)) <= 1) =>
            /\ promos[p].used_count <= promos[p].usage_limit
            /\ Cardinality({b \in Created : bookings[b].promo_code = p})
                    <= promos[p].usage_limit

(* ------------------------------ properties: payments ------------------- *)

\* C11: no booking is cancelled and paid: every operation that can set
\* payment_status to paid fails on a cancelled booking, and every operation
\* that cancels a paid booking sets payment_status to refunded.  Refuted:
\* process_payment marks the booking paid without looking at booking_status
\* (an attempt initiated before the cancellation and processed after it), and
\* the administrator's update_payment_status sets any status on any booking.
C11_NeverCancelledAndPaid ==
    \A b \in BookingIds :
        ~(bookings[b].booking_status = "cancelled" /\ bookings[b].payment_status = "paid")

\* C12: a booking whose payment_status is paid has a Payment attempt that
\* reached success.  Refuted: the customer's and the administrator's
\* update_payment_status set paid on a booking that has no payment at all.
C12_PaidHasSuccessfulPayment ==
    \A b \in BookingIds :
        bookings[b].payment_status = "paid" =>
            \E i \in PaymentIds : payments[i].booking_id = b /\ payments[i].succeeded

\* C13: applying payment success to a non-cancelled booking that is already
\* paid is a successful no-op: the owner's request is not rejected as an
\* error and the booking, the seats and the counters stay as they are.
\* Stated for the customer payment-status update to paid, for initiating a
\* payment and for processing one of the booking's attempts with a gateway
\* success.  Refuted: initiate_payment answers 400 "Booking is already paid",
\* and process_payment answers 400 for the attempt that has already succeeded.
C13_PaidAgainIsNoOp ==
    [][ \A u \in Users, b \in BookingIds :
          (/\ resp = NoResponse
           /\ bookings[b].user_id = u
           /\ bookings[b].payment_status = "paid"
           /\ bookings[b].booking_status \in {"pending", "confirmed", "completed"}) =>
              /\ UpdatePaymentStatus(u, b, "paid") => (resp'.code < 400 /\ UNCHANGED db)
              /\ InitiatePayment(u, b) => (resp'.code < 400 /\ UNCHANGED db)
              /\ \A i \in PaymentIds :
                    (payments[i].booking_id = b /\ ProcessPayment(u, i, "success")) =>
                        (resp'.code < 400 /\ UNCHANGED db)
      ]_vars

\* C14: when processing a Payment attempt ends in gateway failure the booking,
\* the seats and the trip counter are unchanged; only that attempt changes,
\* to failed with the failure code of the gateway recorded on it.
C14_GatewayFailureFrame ==
    [][ \A u \in Users, i \in PaymentIds, sc \in DOMAIN GatewayFailures :
          (resp = NoResponse /\ ProcessPayment(u, i, sc) /\ payments' # payments) =>
              /\ UNCHANGED db
              /\ resp' = Response("process", 400)
              /\ payments'[i].status = "failed"
              /\ payments'[i].failure_code = GatewayFailures[sc]
              /\ payments'[i].booking_id = payments[i].booking_id
              /\ payments'[i].amount = payments[i].amount
              /\ \A j \in PaymentIds \ {i} : payments'[j] = payments[j]
      ]_vars

\* An attempt has just been declined by the gateway; its booking is still
\* confirmed and unpaid.
C14_Witness ==
    /\ resp = Response("process", 400)
    /\ \E i \in PaymentIds :
          /\ payments[i].status = "failed"
          /\ payments[i].failure_code = "DECLINED"
          /\ bookings[payments[i].booking_id].booking_status = "confirmed"
          /\ bookings[payments[i].booking_id].payment_status = "unpaid"

\* C15: a refund request succeeds only for a Payment attempt in success state
\* and a refund amount that is positive and not above the payment's amount;
\* then the payment and the booking's payment_status become refunded while
\* booking_status, seats and available_seats stay; otherwise the request
\* fails and changes nothing.
C15_RefundGuard ==
    [][ \A u \in Users, i \in PaymentIds, a \in RefundAmounts :
          (resp = NoResponse /\ RequestRefund(u, i, a)) =>
              IF resp'.code = 200
              THEN LET b == payments[i].booking_id
                   IN /\ payments[i].status = "success"
                      /\ 0 < a
                      /\ a <= payments[i].amount
                      /\ payments'[i].status = "refunded"
                      /\ bookings'[b].payment_status = "refunded"
                      /\ bookings'[b].booking_status = bookings[b].booking_status
                      /\ \A c \in BookingIds \ {b} : bookings'[c] = bookings[c]
                      /\ UNCHANGED <<seats, trip, promos, nextId>>
              ELSE UNCHANGED <<db, payments>>
      ]_vars

\* One cent of a successful payment has just been refunded: payment and
\* payment_status are refunded, the booking is still confirmed and holds its
\* seat.
C15_Witness ==
    /\ resp = Response("refund", 200)
    /\ \E i \in PaymentIds :
          /\ payments[i].status = "refunded"
          /\ payments[i].refund_amount = 1
          /\ bookings[payments[i].booking_id].payment_status = "refunded"
          /\ bookings[payments[i].booking_id].booking_status = "confirmed"
          /\ BookingSeats(payments[i].booking_id) # {}

\* C16: processing a Payment attempt that is already success, failed or
\* cancelled is rejected and changes neither the payments nor the bookings;
\* an attempt that has received a gateway outcome never receives a second
\* one.  Refuted: a refunded attempt is not among the statuses process_payment
\* refuses, so it is processed again and its booking becomes paid again.
C16_ProcessedOnce ==
    [][ \A u \in Users, i \in PaymentIds, sc \in TestScenarios :
          (/\ resp = NoResponse
           /\ payments[i].status \in {"success", "failed", "cancelled"} \/ payments[i].processed
           /\ ProcessPayment(u, i, sc)) =>
              /\ resp'.code >= 400
              /\ UNCHANGED <<bookings, payments>>
      ]_vars

\* C17: customer cancel, customer payment-status update, payment initiation,
\* payment processing and refund by a caller who is not the owner of the
\* booking (of the payment) are rejected and change no booking, seat, trip
\* counter, promo counter or payment.
C17_OwnerOnly ==
    [][ \A u \in Users :
          resp = NoResponse =>
              /\ \A b \in BookingIds :
                    (/\ Exists(b)
                     /\ bookings[b].user_id # u
                     /\ \/ CancelBooking(u, b)
                        \/ InitiatePayment(u, b)
                        \/ \E ps \in {"paid", "failed"} : UpdatePaymentStatus(u, b, ps)) =>
                        (resp'.code = 403 /\ UNCHANGED <<db, payments>>)
              /\ \A i \in PaymentIds :
                    (/\ PaymentExists(i)
                     /\ payments[i].user_id # u
                     /\ \/ \E sc \in TestScenarios : ProcessPayment(u, i, sc)
                        \/ \E a \in RefundAmounts : RequestRefund(u, i, a)) =>
                        (resp'.code = 403 /\ UNCHANGED <<db, payments>>)
      ]_vars

\* Another user's request to process an initiated payment has just been
\* refused with 403; the payment is still initiated and its booking unpaid.
C17_Witness ==
    /\ resp = Response("process", 403)
    /\ \E i \in PaymentIds :
          /\ payments[i].status = "initiated"
          /\ bookings[payments[i].booking_id].payment_status = "unpaid"
          /\ bookings[payments[i].booking_id].booking_status = "confirmed"

\* ---------------------------------------------------------------------------
\* properties: counters over create, cancel and re-activation
\* ---------------------------------------------------------------------------

\* C18: a promo code's used_count equals its initial value (0) plus the
\* bookings created with the code minus those of them that have been
\* cancelled, by the customer or by an admin status change: it counts the
\* bookings with the code that are not cancelled, is never negative and never
\* exceeds usage_limit.  Refuted: the admin's change to cancelled releases the
\* seats but leaves used_count as it was.
C18_UsedCountTracksBookings ==
    \A p \in PromoCodes :
        /\ promos[p].used_count =
               Cardinality({b \in BookingIds : /\ Exists(b)
                                               /\ bookings[b].promo_code = p
                                               /\ bookings[b].booking_status # "cancelled"})
        /\ 0 <= promos[p].used_count
        /\ promos[p].used_count <= promos[p].usage_limit

\* C19: available_seats stays between 0 and total_seats after any sequence of
\* create, customer cancel, admin booking-status change and admin delete.
\* Refuted: re-activating a cancelled booking whose seats were sold again
\* subtracts its num_seats a second time.
C19_CounterInRange ==
    /\ 0 <= trip.available_seats
    /\ trip.available_seats <= trip.total_seats

\* C20: every booking that is not cancelled owns exactly num_seats seats, each
\* of them booked.  Refuted: a re-activated booking keeps num_seats but gets
\* none of its seats back.
C20_OwnsNumSeats ==
    \A b \in BookingIds :
        (Exists(b) /\ bookings[b].booking_status # "cancelled") =>
            /\ Cardinality(BookingSeats(b)) = bookings[b].num_seats
            /\ \A s \in BookingSeats(b) : seats[s].status = "booked"

\* ---------------------------------------------------------------------------
\* properties: re-activation, promo codes, completed bookings, refunds
\* ---------------------------------------------------------------------------

\* C21: an admin status change that takes a booking out of cancelled checks
\* the seats the booking held before it was cancelled: if one of them is no
\* longer available the request fails and leaves bookings, seats and the trip
\* counter unchanged; otherwise exactly those seats become booked with their
\* back-reference set to the booking and available_seats decreases by
\* num_seats.  Refuted: cancelling unlinks the seats, so the handler checks
\* and re-books an empty list.
C21_ReactivationChecksHeldSeats ==
    [][ \A b \in BookingIds, st \in BookingStatus \ {"cancelled"} :
          (/\ resp = NoResponse
           /\ bookings[b].booking_status = "cancelled"
           /\ AdminUpdateBookingStatus(b, st)) =>
              LET held == bookings[b].seat_ids
              IN IF \E s \in held : seats[s].status # "available"
                 THEN /\ resp'.code >= 400
                      /\ UNCHANGED <<bookings, seats, trip>>
                 ELSE /\ resp'.code = 200
                      /\ bookings'[b].booking_status = st
                      /\ seats' = [s \in Seats |->
                                      IF s \in held
                                      THEN [status |-> "booked", booking_id |-> b]
                                      ELSE seats[s]]
                      /\ trip'.available_seats =
                             trip.available_seats - bookings[b].num_seats
      ]_vars

\* C22: deleting the trip is refused whenever a booking that is not cancelled
\* (pending, confirmed or completed) references it, and then nothing changes;
\* the trip is deleted only when it has no booking or only cancelled ones.
\* Refuted: delete_trip counts confirmed and pending bookings only, so a trip
\* with a completed booking is deleted together with that booking.
C22_DeleteTripRefused ==
    [][ (/\ resp = NoResponse
         /\ \E b \in BookingIds : Exists(b) /\ bookings[b].booking_status # "cancelled"
         /\ AdminDeleteTrip) =>
            (resp'.code >= 400 /\ UNCHANGED db)
      ]_vars

\* The bookings of user u that reference promo code p, in any status.
UserUsage(p, u) ==
    Cardinality({b \in BookingIds :
        Exists(b) /\ bookings[b].user_id = u /\ bookings[b].promo_code = p})

C24_IsValid ==
    \A p \in PromoCodes :
        LET c == promos[p]
            active == c.is_active
            started == c.valid_from <= now
            running == now <= c.valid_until
            left == c.usage_limit = 0 \/ c.used_count < c.usage_limit
        IN /\ is_valid(p) = "valid" <=> (active /\ started /\ running /\ left)
           /\ ~active => is_valid(p) = "inactive"
           /\ (active /\ ~started) => is_valid(p) = "not_yet_valid"
           /\ (active /\ started /\ ~running) => is_valid(p) = "expired"
           /\ (active /\ started /\ running /\ ~left) => is_valid(p) = "usage_limit_reached"

\* A create with SAVE10 has just been rejected before departure with a seat
\* free: the code is at the last moment of its window, switched off, and its
\* usage limit is reached as well.
C24_Witness ==
    /\ resp = Response("create", 400)
    /\ now <= trip.departure_time
    /\ \E s \in Seats : seats[s].status = "available"
    /\ ~promos["SAVE10"].is_active
    /\ now = promos["SAVE10"].valid_until
    /\ promos["SAVE10"].usage_limit # 0
    /\ promos["SAVE10"].used_count >= promos["SAVE10"].usage_limit
    /\ is_valid("SAVE10") = "inactive"

\* The purchase amounts calculate_discount is applied to, in cents: nothing,
\* one cent, the amounts around a minimum of 50.00, the subtotals of the
\* trip's seats, and amounts that reach a cap of 20.00.
Amounts == {0, 1, 5, 4000, 4999, 5000, 6249, 10000, 11248, 20000, 30000}

\* C25: calculate_discount(amount) is 0 when min_purchase_amount is set and
\* amount is below it; otherwise it is amount x discount_percentage / 100,
\* lowered to max_discount_amount when that is set and smaller, to the nearest
\* cent.  With 10 percent, minimum 50.00 and cap 20.00 the amounts 100.00,
\* 300.00 and 40.00 give 10.00, 20.00 and 0.  The result is never negative and
\* never exceeds the amount.
C25_CalculateDiscount ==
    \A p \in PromoCodes :
        LET c == promos[p]
        IN /\ \A amount \in Amounts :
                LET d == calculate_discount(p, amount)
                    raw == amount * c.discount_percentage
                IN /\ 0 <= d
                   /\ d <= amount
                   /\ IF c.min_purchase_amount # 0 /\ amount < c.min_purchase_amount
                      THEN d = 0
                      ELSE IF c.max_discount_amount # 0 /\ c.max_discount_amount * 100 < raw
                      THEN d = c.max_discount_amount
                      ELSE 100 * d - raw <= 50 /\ raw - 100 * d <= 50
           /\ (/\ c.discount_percentage = 10
               /\ c.min_purchase_amount = 5000
               /\ c.max_discount_amount = 2000) =>
                  /\ calculate_discount(p, 10000) = 1000
                  /\ calculate_discount(p, 30000) = 2000
                  /\ calculate_discount(p, 4000) = 0

\* A booking has just been created with SAVE10 at 10 percent, minimum 50.00
\* and cap 20.00: its discount is what calculate_discount gives for its
\* subtotal, and it is not zero.
C25_Witness ==
    /\ resp = Response("create", 201)
    /\ promos["SAVE10"].discount_percentage = 10
    /\ promos["SAVE10"].min_purchase_amount = 5000
    /\ promos["SAVE10"].max_discount_amount = 2000
    /\ \E b \in BookingIds :
          /\ Exists(b)
          /\ bookings[b].promo_code = "SAVE10"
          /\ bookings[b].discount_amount > 0
          /\ bookings[b].discount_amount = calculate_discount("SAVE10", bookings[b].subtotal)

\* C26: a completed booking never changes status again: customer cancel and
\* the admin status change leave a completed booking completed, and leave the
\* seats and the trip counter as they are.  Refuted: the admin status change
\* has no check for completed and cancels the booking, releasing its seats.
C26_CompletedIsFinal ==
    [][ \A b \in BookingIds :
          (/\ resp = NoResponse
           /\ bookings[b].booking_status = "completed"
           /\ \/ \E u \in Users : CancelBooking(u, b)
              \/ \E st \in BookingStatus : AdminUpdateBookingStatus(b, st)) =>
              /\ bookings'[b].booking_status = "completed"
              /\ UNCHANGED <<seats, trip>>
      ]_vars

\* C27: each Payment attempt is refunded at most once: a refunded payment
\* does not become success again, does not set its booking back to paid, and
\* a payment that carries a refund is not refunded a second time.  Refuted:
\* process_payment accepts a refunded attempt, which then succeeds again and
\* can be refunded again.
C27_RefundedOnce ==
    [][ \A i \in PaymentIds :
          /\ payments[i].status = "refunded" => payments'[i].status # "success"
          /\ (resp = NoResponse /\ payments[i].status = "refunded") =>
                \A u \in Users, sc \in TestScenarios :
                    ProcessPayment(u, i, sc) => bookings' = bookings
          /\ (resp = NoResponse /\ payments[i].refund_amount # 0) =>
                \A u \in Users, a \in RefundAmounts :
                    RequestRefund(u, i, a) => resp'.code >= 400
      ]_vars

\* C28: a booking never has more than one Payment attempt in success state.
\* Refuted: two attempts initiated while the booking is unpaid both succeed,
\* because process_payment does not look at the booking's payment_status.
C28_OneSuccessPerBooking ==
    \A b \in BookingIds :
        Cardinality({i \in PaymentIds :
            payments[i].booking_id = b /\ payments[i].status = "success"}) <= 1

\* C29: once a booking's payment_status is paid, a customer request (cancel,
\* payment-status update, payment initiation, processing, refund) leaves it
\* paid or makes it refunded; none moves it to failed or back to unpaid.
\* Refuted: the customer payment-status update writes failed over paid.
C29_PaidOnlyToRefunded ==
    [][ \A b \in BookingIds :
          (/\ resp = NoResponse
           /\ bookings[b].payment_status = "paid"
           /\ \E u \in Users :
                \/ CancelBooking(u, b)
                \/ \E ps \in {"paid", "failed"} : UpdatePaymentStatus(u, b, ps)
                \/ InitiatePayment(u, b)
                \/ \E i \in PaymentIds, sc \in TestScenarios : ProcessPayment(u, i, sc)
                \/ \E i \in PaymentIds, a \in RefundAmounts : RequestRefund(u, i, a)) =>
              bookings'[b].payment_status \in {"paid", "refunded"}
      ]_vars

\* The bookings that are not cancelled.
LiveBookings == {b \in BookingIds : Exists(b) /\ bookings[b].booking_status # "cancelled"}

\* C30: with requests served one at a time, available_seats equals
\* total_seats minus the sum of num_seats over the bookings that are not
\* cancelled, across create, customer cancel, admin status change including
\* re-activation, and admin booking delete.
C30_CounterMatchesBookings ==
    trip.available_seats =
        trip.total_seats - SumOver(LiveBookings, [b \in LiveBookings |-> bookings[b].num_seats])

\* An administrator has just re-activated a cancelled booking: it is confirmed
\* again, counts its num_seats, and holds no seat.
C30_Witness ==
    /\ resp = Response("admin_status", 200)
    /\ \E b \in LiveBookings :
          /\ bookings[b].booking_status = "confirmed"
          /\ bookings[b].num_seats > 0
          /\ BookingSeats(b) = {}

====
